---- MODULE Spec2Model ----
(***************************************************************************)
(* Model of the eventbus package (emitter.go): a registry of named         *)
(* handlers (sync.Map of *event), the asynchronous Send path through the   *)
(* unbuffered sender channel, the background Loop goroutine and the        *)
(* goroutines it spawns to run event.Call.                                 *)
(***************************************************************************)
EXTENDS Integers, Sequences, FiniteSets, Bags, TLC

\* ---------------------------------------------------------------- bounds
MaxOps == 4
MaxSeqOps == 5
MaxFairOps == 3

\* ------------------------------------------------------------- universes
Callers == {"c1", "c2"}
SeqCallers == {"c1"}
Keys == {"k1", "k2"}
\* values handed to On/Once: two functions of the test file and a non-function
Values == {"add", "makePanic", "notFunc"}
\* argument counts of the tests' Send calls: makePanic (0), add (3) and the
\* short argument list of TestEventBus_Send (2)
ArgCounts == {0, 2, 3}

\* the error values of emitter.go
Nil == "nil"
ErrArgsNotMatch == "ErrArgsNotMatch"
ErrEventType == "ErrEventType"
ErrExists == "ErrExists"
ErrNotCallable == "ErrNotCallable"
ErrNotFound == "ErrNotFound"
ErrRuntimePanic == "ErrRuntimePanic"

IsFunc_Any(v) == TRUE

\* reflect.ValueOf(call).Kind() == reflect.Func
IsFunc(v) == v \in {"add", "makePanic"}
\* reflect.ValueOf(call).Type().NumIn()
NumIn(v) == IF v = "add" THEN 3 ELSE 0
\* does running the function panic
Panics(v) == v = "makePanic"

\* a nil pointer / absent map value
NoEntry == 0

VARIABLES
    events,     \* EventBus.events: key -> pointer to event (NoEntry if absent)
    entries,    \* the heap of event objects, indexed by pointer
    pc,         \* where each caller stands inside its current operation
    arg,        \* the operation and arguments of each caller's current/last call
    ret,        \* the value returned by each caller's last completed call
    loop,       \* the Loop goroutine: its position and the sender it holds
                \* (seq: the rank of the sender among those handed over)
    tasks,      \* bag of goroutines started by `go s.Call()`
    exec,       \* per event: number of times its function was run
    sendOk,     \* per event: number of Send calls that returned nil for it
    live,       \* per key: registrations that returned nil and were not deleted since
    outcomes,   \* pairs <<Send's return value, err of the Call it triggered>>
    closed,     \* number of Close calls that have returned
    nops        \* number of operations called so far

vars == <<events, entries, pc, arg, ret, loop, tasks, exec, sendOk, live,
          outcomes, closed, nops>>

NoArg == [op |-> "none", key |-> "k1", call |-> "notFunc", once |-> FALSE,
          nargs |-> 0, e |-> NoEntry]

\* New(): empty map, both channels empty, Loop started
Init ==
    /\ events = [k \in Keys |-> NoEntry]
    /\ entries = <<>>
    /\ pc = [c \in Callers |-> "idle"]
    /\ arg = [c \in Callers |-> NoArg]
    /\ ret = [c \in Callers |-> Nil]
    /\ loop = [pc |-> "select", e |-> NoEntry, args |-> 0, ret |-> Nil, seq |-> 0]
    /\ tasks = EmptyBag
    /\ exec = <<>>
    /\ sendOk = <<>>
    /\ live = [k \in Keys |-> 0]
    /\ outcomes = {}
    /\ closed = 0
    /\ nops = 0

\* ------------------------------------------------------------- sync.Map
Load_AlwaysOk(m, k) == [value |-> m[k], ok |-> TRUE]

\* sync.Map.Load: value and ok
Load(m, k) == [value |-> m[k], ok |-> m[k] # NoEntry]

LoadOrStore_AlwaysStore(m, k, p) == [map |-> [m EXCEPT ![k] = p], loaded |-> FALSE]

LoadOrStore_Overwrite(m, k, p) ==
    [map |-> [m EXCEPT ![k] = p], loaded |-> m[k] # NoEntry]

\* sync.Map.LoadOrStore: stores p only when k is absent; loaded tells which
LoadOrStore(m, k, p) ==
    IF m[k] # NoEntry
    THEN [map |-> m, loaded |-> TRUE]
    ELSE [map |-> [m EXCEPT ![k] = p], loaded |-> FALSE]

Delete_Noop(m, k) == m

\* sync.Map.Delete
Delete(m, k) == [m EXCEPT ![k] = NoEntry]

\* ------------------------------------------------------------- helpers
\* &event{key, once, call} with argsNums filled in by on()
NewEvent(k, once, v) ==
    [key |-> k, once |-> once, call |-> v, argsNums |-> NumIn(v), callTimes |-> 0]

TypeAssert_Fails(m) == FALSE

\* e, ok := m.(*event): the map only ever holds *event values
TypeAssert(m) == m \in 1..Len(entries)

ArgsMatch_Always(e, n) == TRUE

\* len(args) == e.argsNums
ArgsMatch(e, n) == n = entries[e].argsNums

RECURSIVE SumTo(_, _)
\* f[1] + ... + f[n]
SumTo(f, n) == IF n = 0 THEN 0 ELSE f[n] + SumTo(f, n - 1)

\* the caller's call returns r
Return(c, r) ==
    /\ pc' = [pc EXCEPT ![c] = "idle"]
    /\ ret' = [ret EXCEPT ![c] = r]

\* the registry after Delete(k), with the count of live registrations
Deleted(k) ==
    /\ events' = Delete(events, k)
    /\ live' = [live EXCEPT ![k] = IF events[k] # NoEntry /\ events'[k] = NoEntry
                                    THEN @ - 1 ELSE @]

\* ------------------------------------------------------- On / Once / on
\* On, Once up to line 99 of on(): build the event, reject a non-function
OnCall(c, k, v, once, limit) ==
    /\ pc[c] = "idle" /\ nops < limit
    /\ nops' = nops + 1
    /\ arg' = [arg EXCEPT ![c] = [op |-> IF once THEN "Once" ELSE "On", key |-> k,
                                  call |-> v, once |-> once, nargs |-> 0, e |-> NoEntry]]
    /\ IF ~IsFunc(v)
       THEN Return(c, ErrNotCallable)
       ELSE /\ pc' = [pc EXCEPT ![c] = "on"]
            /\ ret' = ret
    /\ UNCHANGED <<events, entries, loop, tasks, exec, sendOk, live, outcomes, closed>>

\* on(), line 100: p.events.LoadOrStore(e.key, e)
OnStore(c) ==
    /\ pc[c] = "on"
    /\ LET k == arg[c].key
           p == Len(entries) + 1
           r == LoadOrStore(events, k, p)
       IN IF r.loaded
          THEN /\ Return(c, ErrExists)
               /\ events' = r.map
               /\ UNCHANGED <<entries, exec, sendOk, live>>
          ELSE /\ Return(c, Nil)
               /\ events' = r.map
               /\ entries' = Append(entries, NewEvent(k, arg[c].once, arg[c].call))
               /\ exec' = Append(exec, 0)
               /\ sendOk' = Append(sendOk, 0)
               /\ live' = [live EXCEPT ![k] = @ + 1]
    /\ UNCHANGED <<arg, loop, tasks, outcomes, closed, nops>>

\* ---------------------------------------------------------------- Send
\* Send is called with n arguments for key k
SendCall(c, k, n, limit) ==
    /\ pc[c] = "idle" /\ nops < limit
    /\ nops' = nops + 1
    /\ arg' = [arg EXCEPT ![c] = [NoArg EXCEPT !.op = "Send", !.key = k, !.nargs = n]]
    /\ pc' = [pc EXCEPT ![c] = "send"]
    /\ UNCHANGED <<events, entries, ret, loop, tasks, exec, sendOk, live, outcomes,
                   closed>>

\* Send, lines 108-119: Load, type assertion, argument count
SendLoad(c) ==
    /\ pc[c] = "send"
    /\ LET m == Load(events, arg[c].key)
       IN /\ arg' = [arg EXCEPT ![c].e = m.value]
          /\ IF ~m.ok THEN Return(c, ErrNotFound)
             ELSE IF ~TypeAssert(m.value) THEN Return(c, ErrEventType)
             ELSE IF ~ArgsMatch(m.value, arg[c].nargs) THEN Return(c, ErrArgsNotMatch)
             ELSE /\ pc' = [pc EXCEPT ![c] = IF entries[m.value].once
                                              THEN "remove" ELSE "enqueue"]
                  /\ ret' = ret
    /\ UNCHANGED <<events, entries, loop, tasks, exec, sendOk, live, outcomes,
                   closed, nops>>

SendRemove_Skip(c) ==
    /\ pc[c] = "remove"
    /\ pc' = [pc EXCEPT ![c] = "enqueue"]
    /\ UNCHANGED <<events, live, entries, arg, ret, loop, tasks, exec, sendOk,
                   outcomes, closed, nops>>

\* Send, lines 120-122: p.Remove(eventKey) for a once event
SendRemove(c) ==
    /\ pc[c] = "remove"
    /\ Deleted(arg[c].key)
    /\ pc' = [pc EXCEPT ![c] = "enqueue"]
    /\ UNCHANGED <<entries, arg, ret, loop, tasks, exec, sendOk, outcomes, closed, nops>>

\* Send line 123-124 meeting Loop line 144: the unbuffered channel hands the
\* sender over, Send returns nil
LoopRecv(c) ==
    /\ pc[c] = "enqueue" /\ loop.pc = "select"
    /\ loop' = [pc |-> "spawn", e |-> arg[c].e, args |-> arg[c].nargs, ret |-> Nil,
                seq |-> SumTo(sendOk, Len(sendOk)) + 1]
    /\ Return(c, Nil)
    /\ sendOk' = [sendOk EXCEPT ![arg[c].e] = @ + 1]
    /\ UNCHANGED <<events, entries, arg, tasks, exec, live, outcomes, closed, nops>>

LoopSpawn_Drop ==
    /\ loop.pc = "spawn"
    /\ loop' = [pc |-> "select", e |-> NoEntry, args |-> 0, ret |-> Nil, seq |-> 0]
    /\ UNCHANGED <<events, entries, pc, arg, ret, tasks, exec, sendOk, live,
                   outcomes, closed, nops>>

\* Loop line 145: go s.Call()
LoopSpawn ==
    /\ loop.pc = "spawn"
    /\ tasks' = tasks (+) SetToBag({[e |-> loop.e, args |-> loop.args,
                                    ret |-> loop.ret, seq |-> loop.seq,
                                    pc |-> "inc"]})
    /\ loop' = [pc |-> "select", e |-> NoEntry, args |-> 0, ret |-> Nil, seq |-> 0]
    /\ UNCHANGED <<events, entries, pc, arg, ret, exec, sendOk, live, outcomes,
                   closed, nops>>

\* event.Call line 44: atomic.AddInt32(&e.callTimes, 1)
TaskInc(t) ==
    /\ BagIn(t, tasks) /\ t.pc = "inc"
    /\ entries' = [entries EXCEPT ![t.e].callTimes = @ + 1]
    /\ tasks' = (tasks (-) SetToBag({t})) (+) SetToBag({[t EXCEPT !.pc = "call"]})
    /\ UNCHANGED <<events, pc, arg, ret, loop, exec, sendOk, live, outcomes,
                   closed, nops>>

\* the err event.Call returns: the deferred recover turns a panic into
\* ErrRuntimePanic
CallErr(e) == IF Panics(entries[e].call) THEN ErrRuntimePanic ELSE Nil

TaskCall_NoRecover(t) ==
    /\ BagIn(t, tasks) /\ t.pc = "call"
    /\ exec' = [exec EXCEPT ![t.e] = @ + 1]
    /\ outcomes' = outcomes \cup {[ret |-> t.ret, err |-> CallErr(t.e)]}
    /\ tasks' = tasks (-) SetToBag({t})
    /\ loop' = IF Panics(entries[t.e].call) THEN [loop EXCEPT !.pc = "crashed"]
                ELSE loop
    /\ UNCHANGED <<events, entries, pc, arg, ret, sendOk, live, closed, nops>>

\* event.Call lines 46-59: run the function, recover, return; the goroutine ends
TaskCall(t) ==
    /\ BagIn(t, tasks) /\ t.pc = "call"
    /\ exec' = [exec EXCEPT ![t.e] = @ + 1]
    /\ outcomes' = outcomes \cup {[ret |-> t.ret, err |-> CallErr(t.e)]}
    /\ tasks' = tasks (-) SetToBag({t})
    /\ UNCHANGED <<events, entries, pc, arg, ret, loop, sendOk, live, closed, nops>>

\* -------------------------------------------------------- Remove / Close
\* Remove: p.events.Delete(eventkey)
Remove(c, k, limit) ==
    /\ pc[c] = "idle" /\ nops < limit
    /\ nops' = nops + 1
    /\ arg' = [arg EXCEPT ![c] = [NoArg EXCEPT !.op = "Remove", !.key = k]]
    /\ Deleted(k)
    /\ Return(c, Nil)
    /\ UNCHANGED <<entries, loop, tasks, exec, sendOk, outcomes, closed>>

\* Close is called and blocks on p.done <- true
CloseCall(c, limit) ==
    /\ pc[c] = "idle" /\ nops < limit
    /\ nops' = nops + 1
    /\ arg' = [arg EXCEPT ![c] = [NoArg EXCEPT !.op = "Close"]]
    /\ pc' = [pc EXCEPT ![c] = "close"]
    /\ UNCHANGED <<events, entries, ret, loop, tasks, exec, sendOk, live, outcomes,
                   closed>>

LoopDone_Exits(c) ==
    /\ pc[c] = "close" /\ loop.pc = "select"
    /\ Return(c, Nil)
    /\ closed' = closed + 1
    /\ loop' = [loop EXCEPT !.pc = "exited"]
    /\ UNCHANGED <<events, entries, arg, tasks, exec, sendOk, live, outcomes, nops>>

\* Close line 134 meeting Loop lines 142-143: Loop receives from done, and
\* `break` leaves the select statement only, so the for loop goes round again
LoopDone(c) ==
    /\ pc[c] = "close" /\ loop.pc = "select"
    /\ Return(c, Nil)
    /\ closed' = closed + 1
    /\ loop' = loop
    /\ UNCHANGED <<events, entries, arg, tasks, exec, sendOk, live, outcomes, nops>>

\* ------------------------------------------------------- specifications
CallerStep(c, limit) ==
    \/ \E k \in Keys, v \in Values, once \in BOOLEAN : OnCall(c, k, v, once, limit)
    \/ OnStore(c)
    \/ \E k \in Keys, n \in ArgCounts : SendCall(c, k, n, limit)
    \/ SendLoad(c)
    \/ SendRemove(c)
    \/ \E k \in Keys : Remove(c, k, limit)
    \/ CloseCall(c, limit)

LoopStep ==
    \/ \E c \in Callers : LoopRecv(c)
    \/ \E c \in Callers : LoopDone(c)
    \/ LoopSpawn

TaskStep == \E t \in BagToSet(tasks) : TaskInc(t) \/ TaskCall(t)

\* any number of goroutines calling the bus concurrently
Next ==
    \/ \E c \in Callers : CallerStep(c, MaxOps)
    \/ LoopStep
    \/ TaskStep

Spec == Init /\ [][Next]_vars

\* one goroutine calling the bus, one call after the other
NextSeq ==
    \/ \E c \in SeqCallers : CallerStep(c, MaxSeqOps)
    \/ LoopStep
    \/ TaskStep

SeqSpec == Init /\ [][NextSeq]_vars

\* the Go scheduler runs the Loop goroutine and the goroutines it starts, and
\* select picks among its ready cases at random, so no channel operation that
\* is ready again and again is passed over forever; nothing is assumed about
\* the callers
Fairness ==
    /\ WF_vars(LoopSpawn)
    /\ WF_vars(TaskStep)
    /\ \A c \in Callers :
          /\ SF_vars(LoopRecv(c))
          /\ SF_vars(LoopDone(c))

NextFair ==
    \/ \E c \in Callers : CallerStep(c, MaxFairOps)
    \/ LoopStep
    \/ TaskStep

\* the concurrent callers under fair scheduling
FairSpec == Init /\ [][NextFair]_vars /\ Fairness
\* ------------------------------------------------------------ properties
Ids == 1..Len(entries)

\* the call of caller c has returned and was operation op
Returned(c, ops) == pc[c] = "idle" /\ arg[c].op \in ops

\* C1: the function of an event registered with Once runs at most one time per
\* registration, however many Send calls on its key overlap.
C1_OnceRunsAtMostOnce == \A id \in Ids : entries[id].once => exec[id] <= 1

\* C2: of the Send calls made on one Once registration with a matching argument
\* count, exactly one returns nil; every other one returns ErrNotFound, so no
\* second nil is counted for the registration.
C2_OneSendWins == \A id \in Ids : entries[id].once => sendOk[id] <= 1

\* C3: On or Once (with a function) reaching LoadOrStore for a key that holds an
\* entry returns ErrExists and leaves the map and the stored event (function,
\* once flag, callTimes) as they were; for an absent key it returns nil and
\* stores a new event.
C3_ExistsUntouched ==
    [][\A c \in Callers :
         (pc[c] = "on" /\ pc'[c] # "on") =>
            LET k == arg[c].key IN
            IF events[k] # NoEntry
            THEN /\ ret'[c] = ErrExists
                 /\ events' = events
                 /\ entries' = entries
            ELSE /\ ret'[c] = Nil
                 /\ events'[k] = Len(entries) + 1
                 /\ entries' = Append(entries, NewEvent(k, arg[c].once, arg[c].call))
                 /\ \A j \in Keys \ {k} : events'[j] = events[j]]_vars

\* a second registration was refused while the first event had already been called
C3_Witness ==
    \E c \in Callers :
        /\ Returned(c, {"On", "Once"}) /\ ret[c] = ErrExists
        /\ events[arg[c].key] # NoEntry
        /\ entries[events[arg[c].key]].callTimes > 0
        /\ entries[events[arg[c].key]].call # arg[c].call

\* C4: a key never has more than one registration that succeeded and was not
\* deleted since, and it has one exactly when the map holds an entry for it: of
\* the On/Once calls racing for an absent key one returns nil, the others
\* ErrExists.
C4_OneEntryPerKey ==
    /\ \A k \in Keys : live[k] = IF events[k] # NoEntry THEN 1 ELSE 0
    /\ \A c, d \in Callers :
          (/\ c # d /\ nops = 2
           /\ Returned(c, {"On", "Once"}) /\ Returned(d, {"On", "Once"})
           /\ arg[c].key = arg[d].key
           /\ ret[c] = Nil) => ret[d] \in {ErrExists, ErrNotCallable}

\* two callers registered the same absent key and nothing else was called: one
\* got nil, the other ErrExists
C4_Witness ==
    \E c, d \in Callers :
        /\ c # d /\ nops = 2
        /\ Returned(c, {"On", "Once"}) /\ Returned(d, {"On", "Once"})
        /\ arg[c].key = arg[d].key
        /\ ret[c] = Nil /\ ret[d] = ErrExists
        /\ live[arg[c].key] = 1

\* C5: a Send whose argument count differs from the argsNums of the event it
\* loads returns ErrArgsNotMatch and changes nothing: the map, the events and
\* their callTimes, the channel, the spawned calls and the run counts stay.
C5_ArgsNotMatchNoEffect ==
    [][\A c \in Callers :
         (/\ pc[c] = "send" /\ pc'[c] # "send"
          /\ events[arg[c].key] # NoEntry
          /\ arg[c].nargs # entries[events[arg[c].key]].argsNums) =>
            /\ ret'[c] = ErrArgsNotMatch
            /\ pc'[c] = "idle"
            /\ UNCHANGED <<events, entries, loop, tasks, exec, sendOk, live,
                           outcomes, closed>>]_vars

\* a Send with the wrong argument count on a once key returned ErrArgsNotMatch
\* and the once event is still registered and was never called
C5_Witness ==
    \E c \in Callers :
        /\ Returned(c, {"Send"}) /\ ret[c] = ErrArgsNotMatch
        /\ events[arg[c].key] = arg[c].e
        /\ entries[arg[c].e].once
        /\ entries[arg[c].e].callTimes = 0 /\ exec[arg[c].e] = 0

\* C6: when the function of an event panics, the Send that triggered that call
\* returned ErrRuntimePanic.
C6_PanicReported ==
    \A o \in outcomes : o.err = ErrRuntimePanic => o.ret = ErrRuntimePanic

\* the values a Send may return in the queued mode
SendReturns == {Nil, ErrNotFound, ErrArgsNotMatch}

\* C7: Send returns nil, ErrNotFound or ErrArgsNotMatch and nothing else; it
\* returns nil in the very step that hands its sender to Loop, when the call it
\* asks for is not yet spawned and no function has run for it, so the value
\* does not depend on what the function does.
C7_SendReturnsAtHandOff ==
    /\ [](\A c \in Callers : Returned(c, {"Send"}) => ret[c] \in SendReturns)
    /\ [](\A o \in outcomes : o.ret = Nil)
    /\ [][\A c \in Callers :
            (pc[c] = "enqueue" /\ pc'[c] # "enqueue") =>
               /\ pc'[c] = "idle" /\ ret'[c] = Nil
               /\ loop'.pc = "spawn" /\ loop'.e = arg[c].e
               /\ tasks' = tasks /\ exec' = exec /\ entries' = entries]_vars

\* a Send returned nil and the function it triggered then panicked
C7_Witness ==
    \E c \in Callers :
        /\ Returned(c, {"Send"}) /\ ret[c] = Nil
        /\ Panics(entries[arg[c].e].call)
        /\ exec[arg[c].e] = 1
        /\ [ret |-> Nil, err |-> ErrRuntimePanic] \in outcomes

\* C8: with one caller making its calls one after the other, a Send with
\* matching arguments on a once key returns nil and leaves the key absent, a
\* Send on an absent key returns ErrNotFound, Once on the absent key returns nil
\* and stores a fresh event, and no once event is triggered or run twice.
C8_OnceSequential ==
    /\ [](\A id \in Ids : entries[id].once => sendOk[id] <= 1 /\ exec[id] <= 1)
    /\ [][\A c \in SeqCallers :
            LET k == arg[c].key IN
            /\ (pc[c] = "send" /\ pc'[c] # "send" /\ events[k] = NoEntry) =>
                   (pc'[c] = "idle" /\ ret'[c] = ErrNotFound)
            /\ (/\ pc[c] = "send" /\ pc'[c] # "send" /\ events[k] # NoEntry
                 /\ entries[events[k]].once
                 /\ arg[c].nargs = entries[events[k]].argsNums) =>
                   (pc'[c] = "remove" /\ arg'[c].e = events[k])
            /\ (pc[c] = "remove" /\ pc'[c] # "remove") =>
                   (pc'[c] = "enqueue" /\ events'[k] = NoEntry)
            /\ (pc[c] = "enqueue" /\ pc'[c] # "enqueue" /\ entries[arg[c].e].once) =>
                   (pc'[c] = "idle" /\ ret'[c] = Nil /\ events'[k] = NoEntry)
            /\ (pc[c] = "on" /\ pc'[c] # "on" /\ events[k] = NoEntry) =>
                   /\ ret'[c] = Nil
                   /\ events'[k] = Len(entries) + 1
                   /\ entries'[events'[k]].callTimes = 0]_vars

\* the key was registered with Once twice, each registration was triggered
\* once, and the Send after the second trigger returned ErrNotFound
C8_Witness ==
    \E c \in SeqCallers, i, j \in Ids :
        /\ i < j
        /\ entries[i].once /\ entries[j].once
        /\ entries[i].key = entries[j].key
        /\ sendOk[i] = 1 /\ sendOk[j] = 1
        /\ exec[i] = 1 /\ exec[j] = 1
        /\ Returned(c, {"Send"}) /\ arg[c].key = entries[j].key
        /\ ret[c] = ErrNotFound

\* a once event whose function has run and panicked
Faulted(id) == entries[id].once /\ Panics(entries[id].call) /\ exec[id] >= 1

\* id is the latest event registered for key k
LastOfKey(id, k) ==
    entries[id].key = k /\ \A j \in Ids : entries[j].key = k => j <= id

\* C9: a once event whose function panicked is consumed: the map no longer
\* holds it, a Send that looks its key up afterwards never gets it (it returns
\* ErrNotFound unless the key was registered anew), so no later Send runs the
\* panicking function again.
C9_FaultedOnceConsumed ==
    /\ [](\A id \in Ids : Faulted(id) => events[entries[id].key] # id)
    /\ [][\A c \in Callers :
            (pc[c] = "send" /\ pc'[c] # "send") =>
               /\ \A id \in Ids : Faulted(id) => arg'[c].e # id
               /\ (\E id \in Ids : Faulted(id) /\ LastOfKey(id, arg[c].key)) =>
                      (pc'[c] = "idle" /\ ret'[c] = ErrNotFound)]_vars

\* after the once function panicked a Send of its key returned ErrNotFound and
\* the function had run once
C9_Witness ==
    \E c \in Callers, id \in Ids :
        /\ Faulted(id) /\ exec[id] = 1 /\ sendOk[id] = 1
        /\ Returned(c, {"Send"}) /\ LastOfKey(id, arg[c].key)
        /\ ret[c] = ErrNotFound

\* C10: once a Close has returned, Loop takes nothing more from the sender
\* channel and starts no further call.
C10_LoopStopsAfterClose ==
    [][closed >= 1 => /\ ~(loop.pc = "select" /\ loop'.pc = "spawn")
                      /\ ~(loop.pc = "spawn" /\ loop'.pc = "select")]_vars

\* C11: under fair scheduling every Close that is called returns, also a second
\* or later Close and a Close made while Send calls are under way.
C11_CloseReturns == \A c \in Callers : (pc[c] = "close") ~> (pc[c] = "idle")

\* a second Close has returned while another caller is inside Send
C11_Witness ==
    \E c, d \in Callers :
        /\ c # d
        /\ Returned(c, {"Close"}) /\ closed >= 2
        /\ pc[d] = "send"

\* C12: a Send that finds no entry under its key (never registered, removed, or
\* a once key already consumed) returns ErrNotFound, and the step changes
\* nothing else: no call is handed over or started, the map and the events stay.
C12_NotFoundNoEffect ==
    [][\A c \in Callers :
         (pc[c] = "send" /\ pc'[c] # "send" /\ events[arg[c].key] = NoEntry) =>
            /\ pc'[c] = "idle" /\ ret'[c] = ErrNotFound
            /\ UNCHANGED <<events, entries, loop, tasks, exec, sendOk, live,
                           outcomes, closed>>]_vars

\* a Send of a once key that an earlier Send had consumed returned ErrNotFound
C12_Witness ==
    \E c \in Callers, id \in Ids :
        /\ Returned(c, {"Send"}) /\ ret[c] = ErrNotFound
        /\ LastOfKey(id, arg[c].key)
        /\ entries[id].once /\ sendOk[id] = 1
        /\ events[arg[c].key] = NoEntry

\* C13 (one caller, calls one after the other): Remove returns (nil, it has no
\* result) and leaves its key absent, whatever the key held; On or Once of an
\* absent key then returns nil and stores the new event.
C13_RegisterAfterRemove ==
    /\ [](\A c \in SeqCallers :
            Returned(c, {"Remove"}) => ret[c] = Nil /\ events[arg[c].key] = NoEntry)
    /\ [][\A c \in SeqCallers :
            /\ (arg'[c].op = "Remove" /\ nops' = nops + 1) =>
                   /\ pc'[c] = "idle"
                   /\ events'[arg'[c].key] = NoEntry
                   /\ \A j \in Keys \ {arg'[c].key} : events'[j] = events[j]
            /\ (Returned(c, {"Remove"}) /\ pc'[c] = "on"
                 /\ arg'[c].key = arg[c].key) => events'[arg[c].key] = NoEntry
            /\ (pc[c] = "on" /\ pc'[c] # "on" /\ events[arg[c].key] = NoEntry) =>
                   /\ ret'[c] = Nil
                   /\ events'[arg[c].key] = Len(entries) + 1
                   /\ entries'[Len(entries) + 1] =
                          NewEvent(arg[c].key, arg[c].once, arg[c].call)]_vars

\* a key that held a repeatable event never triggered (so only Remove can have
\* dropped it) is registered again, and the registration returned nil
C13_Witness ==
    \E c \in SeqCallers, i, j \in Ids :
        /\ i < j /\ entries[i].key = entries[j].key
        /\ ~entries[i].once /\ sendOk[i] = 0
        /\ Returned(c, {"On", "Once"}) /\ arg[c].key = entries[j].key
        /\ ret[c] = Nil /\ events[arg[c].key] = j

\* the value among Values that is not a function
NotAFunction == "notFunc"

\* C14 (one caller): On or Once given a value that is not a function returns
\* ErrNotCallable in the step that calls it, and the map, the events and all
\* calls under way stay as they were; no stored event ever holds a non-function.
C14_NotCallableNoEffect ==
    /\ [](\A id \in Ids : entries[id].call # NotAFunction)
    /\ [](\A c \in SeqCallers :
            (Returned(c, {"On", "Once"}) /\ arg[c].call = NotAFunction) =>
               ret[c] = ErrNotCallable)
    /\ [][\A c \in SeqCallers :
            (/\ arg'[c].op \in {"On", "Once"} /\ nops' = nops + 1
             /\ arg'[c].call = NotAFunction) =>
               /\ pc'[c] = "idle" /\ ret'[c] = ErrNotCallable
               /\ UNCHANGED <<events, entries, loop, tasks, exec, sendOk, live,
                              outcomes, closed>>]_vars

\* a non-function was refused for a key that keeps the event it had
C14_Witness ==
    \E c \in SeqCallers :
        /\ Returned(c, {"On", "Once"}) /\ arg[c].call = NotAFunction
        /\ ret[c] = ErrNotCallable
        /\ events[arg[c].key] # NoEntry
        /\ entries[events[arg[c].key]].call # NotAFunction

\* calls handed over for event id that have not run its function yet
Pending(id) ==
    LET ts == {t \in BagToSet(tasks) : t.e = id}
        RECURSIVE Count(_)
        Count(S) == IF S = {} THEN 0
                    ELSE LET t == CHOOSE x \in S : TRUE
                         IN CopiesIn(t, tasks) + Count(S \ {t})
    IN Count(ts) + (IF loop.pc = "spawn" /\ loop.e = id THEN 1 ELSE 0)

\* some Send returned nil and the call it asked for has not run yet
Lagging == \E id \in Ids : exec[id] < sendOk[id]

\* C15: every Send that returned nil for an event stands for exactly one call
\* of that event's function with the Send's arguments, already run or still
\* under way (so the function never runs more often than Sends returned nil),
\* and under fair scheduling each such call does run: whenever calls are
\* outstanding, a moment comes at which all of them have run.
C15_NilSendRunsOnce ==
    /\ [](\A id \in Ids : sendOk[id] = exec[id] + Pending(id))
    /\ [](\A t \in BagToSet(tasks) : t.args = entries[t.e].argsNums)
    /\ [][\A c \in Callers :
            (pc[c] = "enqueue" /\ pc'[c] # "enqueue") =>
               /\ ret'[c] = Nil
               /\ loop'.e = arg[c].e /\ loop'.args = arg[c].nargs]_vars
    /\ Lagging ~> ~Lagging

\* two Sends of a repeatable event returned nil and its function has run twice
C15_Witness ==
    \E id \in Ids :
        /\ ~entries[id].once
        /\ sendOk[id] = 2 /\ exec[id] = 2 /\ Pending(id) = 0

\* C16 (one caller): whenever the caller is between calls, the callTimes of a
\* repeatable event equals the number of Sends that returned nil for it.
C16_CallTimesCountsSends ==
    \A c \in SeqCallers :
        pc[c] = "idle" =>
            \A id \in Ids : ~entries[id].once => entries[id].callTimes = sendOk[id]

\* C17 (one caller): the functions run in the order in which their Sends were
\* made: when a call runs its function, no call handed over before it is still
\* waiting to run.
C17_RunInSendOrder ==
    [][\A t \in BagToSet(tasks) :
         (t.pc = "call" /\ tasks' = tasks (-) SetToBag({t})) =>
            \A u \in BagToSet(tasks) : u.seq >= t.seq]_vars

\* some call has ended with a recovered panic
FaultSeen == \E o \in outcomes : o.err = ErrRuntimePanic

\* C18: a panic of a function stays inside its call: the call ends with
\* ErrRuntimePanic, Loop, the callers and the other calls are untouched, and
\* afterwards a Send waiting at the channel is still taken and every call
\* handed over still runs.
C18_PanicContained ==
    /\ [][\A t \in BagToSet(tasks) :
            (/\ t.pc = "call" /\ tasks' = tasks (-) SetToBag({t})
             /\ entries[t.e].call = "makePanic") =>
               /\ [ret |-> t.ret, err |-> ErrRuntimePanic] \in outcomes'
               /\ UNCHANGED <<loop, pc, ret, events, entries>>]_vars
    /\ [](loop.pc \in {"select", "spawn"})
    /\ \A c \in Callers :
          (FaultSeen /\ pc[c] = "enqueue") ~> (pc[c] = "idle" /\ ret[c] = Nil)
    /\ (FaultSeen /\ Lagging) ~> ~Lagging

\* the panicking function of a repeatable event has run twice, the second time
\* after the first panic, and Loop is back at its select
C18_Witness ==
    \E id \in Ids :
        /\ entries[id].call = "makePanic" /\ ~entries[id].once
        /\ exec[id] = 2 /\ FaultSeen
        /\ loop.pc = "select"

\* the step is an explicit Remove of key k
IsRemoveOf(k) ==
    \E c \in Callers :
        /\ pc[c] = "idle" /\ pc'[c] = "idle" /\ nops' = nops + 1
        /\ arg'[c].op = "Remove" /\ arg'[c].key = k

\* C19: a key registered with On keeps its event through every Send; the only
\* step that takes the event out of the map is an explicit Remove of the key.
C19_OnStaysRegistered ==
    [][\A k \in Keys :
         (/\ events[k] # NoEntry
          /\ ~entries[events[k]].once
          /\ events'[k] # events[k]) => IsRemoveOf(k)]_vars

\* C20: the removal step of a Send on a once key takes out only the event the
\* Send had loaded: an event registered under the key in the meantime stays.
C20_SendRemovesOwnEntry ==
    [][\A c \in Callers :
         (/\ pc[c] = "remove" /\ pc'[c] # "remove"
          /\ events[arg[c].key] # arg[c].e) =>
            events'[arg[c].key] = events[arg[c].key]]_vars
====
